---- MODULE Spec2Model ----
(***************************************************************************)
(* Model of excercises/aws-iac-go/lambda_src/handler.py: one invocation of *)
(* lambda_handler, health check -> fetch with retry -> validate/transform  *)
(* -> store -> metrics.  The collaborators (DynamoDB, the HTTP endpoint,   *)
(* CloudWatch) are the environment: each call to one of them picks its     *)
(* outcome nondeterministically.                                           *)
(***************************************************************************)
EXTENDS Integers, Sequences, FiniteSets, TLC

(* ---------------------------------------------------------------------- *)
(* Program constants                                                      *)
(* ---------------------------------------------------------------------- *)
MAX_RETRIES == 3
DEFAULT_RETRY_AFTER == 5
TITLE_MAX == 500
BODY_MAX == 2000
FLUSH_AMOUNT == 25

(* ---------------------------------------------------------------------- *)
(* Bounds of the model                                                    *)
(* ---------------------------------------------------------------------- *)
MaxRetryAfter == 1
MaxBatch == 2

(* ---------------------------------------------------------------------- *)
(* Python values: text is a sequence of characters                        *)
(* ---------------------------------------------------------------------- *)
DigitChars == <<"0", "1", "2", "3", "4", "5", "6", "7", "8", "9">>
Whitespace == {" ", "\t", "\n"}

RECURSIVE Digits(_)
Digits(n) ==
  IF n < 10 THEN <<DigitChars[n + 1]>>
  ELSE Digits(n \div 10) \o <<DigitChars[(n % 10) + 1]>>

\* str(n) for an int n
PyStrInt(n) == IF n < 0 THEN <<"-">> \o Digits(0 - n) ELSE Digits(n)

\* s.strip()
RECURSIVE LStrip(_)
LStrip(s) ==
  IF s # <<>> /\ Head(s) \in Whitespace THEN LStrip(Tail(s)) ELSE s

RECURSIVE RStrip(_)
RStrip(s) ==
  IF s # <<>> /\ s[Len(s)] \in Whitespace
  THEN RStrip(SubSeq(s, 1, Len(s) - 1)) ELSE s

Strip(s) == RStrip(LStrip(s))

\* s[:n]
Slice(s, n) == SubSeq(s, 1, IF Len(s) < n THEN Len(s) ELSE n)

IsDigit(c) == \E i \in 1..10 : DigitChars[i] = c
DigitVal(c) == (CHOOSE i \in 1..10 : DigitChars[i] = c) - 1

RECURSIVE DigitsVal(_)
DigitsVal(s) ==
  IF s = <<>> THEN 0
  ELSE 10 * DigitsVal(SubSeq(s, 1, Len(s) - 1)) + DigitVal(s[Len(s)])

\* int(s) for a text s: surrounding whitespace, an optional sign, digits.
\* ok = FALSE stands for the ValueError int() raises.
PyIntStr(s) ==
  LET t == Strip(s)
      signed == t # <<>> /\ Head(t) \in {"-", "+"}
      d == IF signed THEN Tail(t) ELSE t
  IN IF d # <<>> /\ \A i \in 1..Len(d) : IsDigit(d[i])
     THEN [ok |-> TRUE,
           n |-> IF signed /\ Head(t) = "-" THEN 0 - DigitsVal(d)
                 ELSE DigitsVal(d)]
     ELSE [ok |-> FALSE, n |-> 0]

RECURSIVE Pow2(_)
Pow2(n) == IF n = 0 THEN 1 ELSE 2 * Pow2(n - 1)

(* ---------------------------------------------------------------------- *)
(* JSON values and raw records                                            *)
(* ---------------------------------------------------------------------- *)
\* A decoded JSON value: t is the Python type json.loads gives it.
StrV(s) == [t |-> "str", s |-> s, n |-> 0]
IntV(n) == [t |-> "int", s |-> <<>>, n |-> n]
BoolV(b) == [t |-> "bool", s |-> <<>>, n |-> IF b THEN 1 ELSE 0]
NullV == [t |-> "NoneType", s |-> <<>>, n |-> 0]
FloatV == [t |-> "float", s |-> <<>>, n |-> 0]
ListV == [t |-> "list", s |-> <<>>, n |-> 0]
DictV == [t |-> "dict", s |-> <<>>, n |-> 0]

\* isinstance(v, (str, int)): bool is a subclass of int
IsStrOrInt(v) == v.t \in {"str", "int", "bool"}

\* str(v) for the values that pass validation
PyStr(v) ==
  CASE v.t = "str" -> v.s
    [] v.t = "int" -> PyStrInt(v.n)
    [] v.t = "bool" -> IF v.n = 1 THEN <<"T", "r", "u", "e">>
                       ELSE <<"F", "a", "l", "s", "e">>
    [] OTHER -> <<"?">>

\* An element of the fetched list: a dict (d maps its keys to values) or
\* any other JSON value (a number, a string, null, a list).
DictItem(d) == [isdict |-> TRUE, d |-> d]
NonDictItem == [isdict |-> FALSE, d |-> [k \in {} |-> NullV]]

REQUIRED == <<"id", "title", "body", "userId">>

\* validate_item: "true", "false", or "raise" when the membership test or
\* item.get fails on an element that is not a dict.
RECURSIVE ValidateFrom(_, _)
ValidateFrom(item, i) ==
  IF i > Len(REQUIRED) THEN "true"
  ELSE IF REQUIRED[i] \notin DOMAIN item.d THEN "false"
  ELSE IF ~IsStrOrInt(item.d[REQUIRED[i]]) THEN "false"
  ELSE ValidateFrom(item, i + 1)

\* Mutant: only the presence of the fields is checked, not their types.
validate_item_presence_only(item) ==
  IF ~item.isdict THEN "raise"
  ELSE IF \A i \in 1..Len(REQUIRED) : REQUIRED[i] \in DOMAIN item.d
       THEN "true" ELSE "false"

validate_item(item) ==
  IF ~item.isdict THEN "raise" ELSE ValidateFrom(item, 1)

\* Mutant: title and body are cut before they are trimmed.
transform_item_cut_then_strip(item, now) ==
  [id |-> PyStr(item.d["id"]),
   timestamp |-> now,
   title |-> Strip(Slice(PyStr(item.d["title"]), TITLE_MAX)),
   body |-> Strip(Slice(PyStr(item.d["body"]), BODY_MAX)),
   user_id |-> PyStr(item.d["userId"]),
   source_url |-> "API_URL",
   processed_at |-> now]

\* transform_item; now is the reading of the clock
transform_item(item, now) ==
  [id |-> PyStr(item.d["id"]),
   timestamp |-> now,
   title |-> Slice(Strip(PyStr(item.d["title"])), TITLE_MAX),
   body |-> Slice(Strip(PyStr(item.d["body"])), BODY_MAX),
   user_id |-> PyStr(item.d["userId"]),
   source_url |-> "API_URL",
   processed_at |-> now]

\* Mutant: an accepted record is put in front of the ones accepted before.
RECURSIVE ProcessFrom_prepends(_, _, _, _, _)
ProcessFrom_prepends(raw, i, valid, invalid, now) ==
  IF i > Len(raw) THEN [raised |-> FALSE, valid |-> valid, invalid |-> invalid]
  ELSE LET v == validate_item(raw[i]) IN
    IF v = "raise" THEN [raised |-> TRUE, valid |-> <<>>, invalid |-> invalid]
    ELSE IF v = "true"
      THEN ProcessFrom_prepends(raw, i + 1,
                                <<transform_item(raw[i], now)>> \o valid,
                                invalid, now)
      ELSE ProcessFrom_prepends(raw, i + 1, valid, invalid + 1, now)

\* process_data: the loop over raw from position i with the accumulators
\* valid and invalid; raised = TRUE when validate_item raised.
RECURSIVE ProcessFrom(_, _, _, _, _)
ProcessFrom(raw, i, valid, invalid, now) ==
  IF i > Len(raw) THEN [raised |-> FALSE, valid |-> valid, invalid |-> invalid]
  ELSE LET v == validate_item(raw[i]) IN
    IF v = "raise" THEN [raised |-> TRUE, valid |-> <<>>, invalid |-> invalid]
    ELSE IF v = "true"
      THEN ProcessFrom(raw, i + 1, Append(valid, transform_item(raw[i], now)),
                       invalid, now)
      ELSE ProcessFrom(raw, i + 1, valid, invalid + 1, now)

process_data(raw, now) == ProcessFrom(raw, 1, <<>>, 0, now)

(* ---------------------------------------------------------------------- *)
(* Exceptions                                                             *)
(* ---------------------------------------------------------------------- *)
\* last_error: the exception of a fetch attempt, or None
NoError == [kind |-> "None", attempt |-> 0]
FetchError(kind, a) == [kind |-> kind, attempt |-> a]

\* An exception reaching lambda_handler's except clause: its type and what
\* its message says.
Exc(type, msg, attempts, cause) ==
  [type |-> type, msg |-> msg, attempts |-> attempts, cause |-> cause]
NoExc == Exc("None", "", 0, NoError)
TableNotAvailable == Exc("RuntimeError", "DynamoDB table is not available", 0, NoError)
\* Mutant: the message counts the attempts from zero.
FetchFailed_off_by_one(le) ==
  Exc("RuntimeError", "Fetch failed after attempts", MAX_RETRIES - 1, le)
FetchFailed(le) == Exc("RuntimeError", "Fetch failed after attempts", MAX_RETRIES, le)
NoValidRecords == Exc("ValueError", "No valid records after validation", 0, NoError)
RecordError == Exc("TypeError", "record is not a dict", 0, NoError)
StoreError == Exc("ClientError", "batch write failed", 0, NoError)
MetricsError == Exc("ClientError", "put_metric_data failed", 0, NoError)

(* ---------------------------------------------------------------------- *)
(* health_check                                                           *)
(* ---------------------------------------------------------------------- *)
\* What describe_table can do: report a table status, or raise.
HealthOutcomes == {"ACTIVE", "CREATING", "UPDATING", "DELETING", "raise"}

\* Mutant: any status describe_table reports counts as healthy.
health_check_any_status(outcome) == outcome # "raise"

health_check(outcome) == IF outcome = "raise" THEN FALSE ELSE outcome = "ACTIVE"

(* ---------------------------------------------------------------------- *)
(* fetch_data: one iteration of the retry loop                            *)
(* ---------------------------------------------------------------------- *)
\* Mutant: the exponent counts the attempts from zero.
Backoff_from_zero(a) == Pow2(a - 1)

\* wait = 2 ** attempt
Backoff(a) == Pow2(a)

\* Mutant: the data is read but the loop goes on instead of returning.
Returned_no_exit(data, le) ==
  [returned |-> FALSE, data |-> data, last_error |-> le, slept |-> <<>>]

\* The outcome of one iteration: returned (with data), or not returned with
\* the new last_error and the completed time.sleep calls.
Returned(data, le) ==
  [returned |-> TRUE, data |-> data, last_error |-> le, slept |-> <<>>]
Retry(le, slept) ==
  [returned |-> FALSE, data |-> <<>>, last_error |-> le, slept |-> slept]

\* except Exception as exc
OnException(a, kind) == Retry(FetchError(kind, a), <<Backoff(a)>>)

\* except urllib.error.HTTPError as exc: both branches wait 2 ** attempt
OnHTTPError(a, code429) ==
  Retry(FetchError(IF code429 THEN "HTTPError429" ELSE "HTTPError", a),
        <<Backoff(a)>>)

\* headers.get("Retry-After", 5)
NoHeader == [present |-> FALSE, text |-> <<>>]
Header(text) == [present |-> TRUE, text |-> text]
\* Mutant: the header is not read, the default always applies.
RetryAfterOf_default_only(hdr) == [ok |-> TRUE, n |-> DEFAULT_RETRY_AFTER]

RetryAfterOf(hdr) ==
  IF hdr.present THEN PyIntStr(hdr.text)
  ELSE [ok |-> TRUE, n |-> DEFAULT_RETRY_AFTER]

\* Mutant: without a Retry-After header the wait is the exponential backoff.
OnRateLimitedResponse_backoff(a, le, hdr) ==
  IF ~hdr.present THEN [returned |-> FALSE, data |-> <<>>, last_error |-> le,
                        slept |-> <<Pow2(a)>>]
  ELSE LET ra == PyIntStr(hdr.text) IN
    IF ~ra.ok \/ ra.n < 0
    THEN [returned |-> FALSE, data |-> <<>>,
          last_error |-> FetchError("ValueError", a), slept |-> <<Pow2(a)>>]
    ELSE [returned |-> FALSE, data |-> <<>>, last_error |-> le,
          slept |-> <<ra.n>>]

\* if resp.status == 429: int() or time.sleep() may raise ValueError, which
\* the enclosing try hands to except Exception.
OnRateLimitedResponse(a, le, hdr) ==
  LET ra == RetryAfterOf(hdr) IN
    IF ~ra.ok \/ ra.n < 0 THEN OnException(a, "ValueError")
    ELSE Retry(le, <<ra.n>>)

\* Mutant: the range runs one attempt too far.
MoreAttempts_one_more(a) == a <= MAX_RETRIES

\* for attempt in range(1, MAX_RETRIES + 1): whether an iteration follows
MoreAttempts(a) == a < MAX_RETRIES

\* What one urlopen call and the reading of its response can do.
\*   ok        a 2xx response whose body decodes to a value with a length
\*   nolen     a 2xx response whose body decodes to null, a number or a
\*             boolean: len(data) raises TypeError
\*   badjson   a 2xx response whose body json.loads rejects
\*   resp429   a response object with status 429
\*   http429   HTTPError with code 429
\*   httperr   HTTPError with another code
\*   neterr    URLError, timeout or another exception of urlopen
fetch_attempt(a, le, o) ==
  CASE o.kind = "ok" -> Returned(o.body, le)
    [] o.kind = "resp429" -> OnRateLimitedResponse(a, le, o.hdr)
    [] o.kind = "http429" -> OnHTTPError(a, TRUE)
    [] o.kind = "httperr" -> OnHTTPError(a, FALSE)
    [] o.kind = "neterr" -> OnException(a, "URLError")
    [] o.kind = "badjson" -> OnException(a, "JSONDecodeError")
    [] o.kind = "nolen" -> OnException(a, "TypeError")

(* ---------------------------------------------------------------------- *)
(* store_data with boto3's batch_writer                                   *)
(* ---------------------------------------------------------------------- *)
\* Mutant: the items still buffered at the exit of the with block are not
\* flushed.
NumChunks_no_final_flush(n) == n \div FLUSH_AMOUNT

\* The number of batches the writer flushes for n items
NumChunks(n) == (n + FLUSH_AMOUNT - 1) \div FLUSH_AMOUNT

\* The j-th batch the writer flushes: FLUSH_AMOUNT buffered items, the rest
\* at the exit of the with block.
Chunk(items, j) ==
  SubSeq(items, (j - 1) * FLUSH_AMOUNT + 1,
         IF j * FLUSH_AMOUNT < Len(items) THEN j * FLUSH_AMOUNT ELSE Len(items))

\* Mutant: a failing flush is swallowed and every put_item is counted.
store_data_swallows_error(items, failAt) ==
  LET n == NumChunks(Len(items))
      good == IF failAt = 0 THEN n ELSE failAt - 1
  IN [raised |-> FALSE,
      written |-> [j \in 1..good |-> Chunk(items, j)],
      stored |-> Len(items)]

\* Mutant: stored counts the flushed batches, not the items.
store_data_counts_batches(items, failAt) ==
  LET n == NumChunks(Len(items))
      good == IF failAt = 0 THEN n ELSE failAt - 1
  IN [raised |-> failAt # 0,
      written |-> [j \in 1..good |-> Chunk(items, j)],
      stored |-> IF failAt = 0 THEN n ELSE 0]

\* store_data(items) when flush number failAt raises (0: none does): the
\* batches written, and the count returned unless the exception propagates.
store_data(items, failAt) ==
  LET n == NumChunks(Len(items))
      good == IF failAt = 0 THEN n ELSE failAt - 1
  IN [raised |-> failAt # 0,
      written |-> [j \in 1..good |-> Chunk(items, j)],
      stored |-> IF failAt = 0 THEN Len(items) ELSE 0]

(* ---------------------------------------------------------------------- *)
(* put_metric                                                             *)
(* ---------------------------------------------------------------------- *)
\* Mutant: put_metric without its try/except.
put_metric_uncaught(backendOk) == ~backendOk

\* Whether put_metric raises when cw.put_metric_data does: except Exception
\* catches it.
put_metric_raises(backendOk) == FALSE

Metric(name, value, unit, backendOk) ==
  [name |-> name, value |-> value, unit |-> unit, delivered |-> backendOk]

(* ---------------------------------------------------------------------- *)
(* The environment's choices                                              *)
(* ---------------------------------------------------------------------- *)
Txt(c) == <<c>>

ValidItem ==
  DictItem([id |-> IntV(1), title |-> StrV(<<" ", "a", " ">>),
            body |-> StrV(Txt("b")), userId |-> IntV(2)])
MissingUserId ==
  DictItem([id |-> IntV(3), title |-> StrV(Txt("t")), body |-> StrV(Txt("b"))])
NullTitle ==
  DictItem([id |-> IntV(4), title |-> NullV, body |-> StrV(Txt("b")),
            userId |-> IntV(2)])

SampleItems == {ValidItem, MissingUserId, NullTitle, NonDictItem}

\* The decoded bodies that have a length: lists of up to MaxBatch elements.
\* A JSON object or string body is iterated like a list of non-dict elements
\* (its keys, its characters), an empty one like the empty list.
Batches == UNION {[1..n -> SampleItems] : n \in 0..MaxBatch}

\* Retry-After header texts: integers, and an HTTP-date int() rejects
RetryAfterTexts == {PyStrInt(n) : n \in (0 - 1)..MaxRetryAfter} \cup {Txt("x")}
Headers == {NoHeader} \cup {Header(t) : t \in RetryAfterTexts}

Outcome(kind, hdr, body) == [kind |-> kind, hdr |-> hdr, body |-> body]
FetchOutcomes ==
  {Outcome("ok", NoHeader, b) : b \in Batches}
  \cup {Outcome(k, h, <<>>) : k \in {"resp429", "http429"}, h \in Headers}
  \cup {Outcome(k, NoHeader, <<>>) : k \in {"httperr", "neterr", "badjson", "nolen"}}

(* ---------------------------------------------------------------------- *)
(* State                                                                  *)
(* ---------------------------------------------------------------------- *)
VARIABLES
  pc,            \* where lambda_handler is
  clock,         \* time.time(), in seconds
  start,         \* start
  attempt,       \* fetch_data's loop variable
  last_error,    \* fetch_data's last_error
  raw_data,      \* raw_data
  processed,     \* processed
  stored_count,  \* stored_count
  exc,           \* the exception caught by the except clause
  result,        \* the value lambda_handler returns
  health,        \* history: what describe_table did
  fetch_log,     \* history: every fetch attempt, its outcome and its sleeps
  sleeps,        \* history: every completed time.sleep, in order
  process_log,   \* history: what each process_data call returned
  store_log,     \* history: each store_data call, its items and batches written
  metrics        \* history: every put_metric call, in order

vars == <<pc, clock, start, attempt, last_error, raw_data, processed,
          stored_count, exc, result, health, fetch_log, sleeps, process_log,
          store_log, metrics>>

NoResult == [statusCode |-> 0]
Success(stored, duration_ms) ==
  [statusCode |-> 200, message |-> "OK", stored |-> stored,
   duration_ms |-> duration_ms]
Failure(e) == [statusCode |-> 500, message |-> "ERROR", error |-> e]

duration_ms == (clock - start) * 1000

RECURSIVE Sum(_)
Sum(s) == IF s = <<>> THEN 0 ELSE Head(s) + Sum(Tail(s))

Init ==
  /\ pc = "start"
  /\ clock = 0
  /\ start = 0
  /\ attempt = 1
  /\ last_error = NoError
  /\ raw_data = <<>>
  /\ processed = <<>>
  /\ stored_count = 0
  /\ exc = NoExc
  /\ result = NoResult
  /\ health = "none"
  /\ fetch_log = <<>>
  /\ sleeps = <<>>
  /\ process_log = <<>>
  /\ store_log = <<>>
  /\ metrics = <<>>

\* start = time.time()
Start ==
  /\ pc = "start"
  /\ start' = clock
  /\ pc' = "health"
  /\ UNCHANGED <<clock, attempt, last_error, raw_data, processed, stored_count,
                 exc, result, health, fetch_log, sleeps, process_log, store_log,
                 metrics>>

\* if not health_check(): raise RuntimeError(...)
HealthCheck ==
  /\ pc = "health"
  /\ \E o \in HealthOutcomes :
       /\ health' = o
       /\ IF health_check(o)
          THEN pc' = "fetch" /\ exc' = exc
          ELSE pc' = "except" /\ exc' = TableNotAvailable
  /\ UNCHANGED <<clock, start, attempt, last_error, raw_data, processed,
                 stored_count, result, fetch_log, sleeps, process_log,
                 store_log, metrics>>

\* One iteration of fetch_data's loop; after the last one without a return,
\* raise RuntimeError(f"Fetch failed after {MAX_RETRIES} attempts: ...").
FetchAttempt ==
  /\ pc = "fetch"
  /\ \E o \in FetchOutcomes :
       LET r == fetch_attempt(attempt, last_error, o) IN
         /\ fetch_log' = Append(fetch_log,
              [attempt |-> attempt, kind |-> o.kind, hdr |-> o.hdr,
               body |-> o.body, slept |-> r.slept])
         /\ sleeps' = sleeps \o r.slept
         /\ clock' = clock + Sum(r.slept)
         /\ last_error' = r.last_error
         /\ IF r.returned
            THEN /\ raw_data' = r.data
                 /\ pc' = "process"
                 /\ UNCHANGED <<attempt, exc>>
            ELSE IF MoreAttempts(attempt)
            THEN /\ attempt' = attempt + 1
                 /\ UNCHANGED <<pc, raw_data, exc>>
            ELSE /\ exc' = FetchFailed(r.last_error)
                 /\ pc' = "except"
                 /\ UNCHANGED <<attempt, raw_data>>
  /\ UNCHANGED <<start, processed, stored_count, result, health, process_log,
                 store_log, metrics>>

\* processed = process_data(raw_data); if not processed: raise ValueError(...)
ProcessData ==
  /\ pc = "process"
  /\ LET r == process_data(raw_data, clock) IN
       /\ process_log' = Append(process_log, r)
       /\ IF r.raised
          THEN pc' = "except" /\ exc' = RecordError /\ processed' = processed
          ELSE /\ processed' = r.valid
               /\ IF r.valid = <<>>
                  THEN pc' = "except" /\ exc' = NoValidRecords
                  ELSE pc' = "store" /\ exc' = exc
  /\ UNCHANGED <<clock, start, attempt, last_error, raw_data, stored_count,
                 result, health, fetch_log, sleeps, store_log, metrics>>

\* stored_count = store_data(processed)
StoreData ==
  /\ pc = "store"
  /\ \E failAt \in 0..NumChunks(Len(processed)) :
       LET r == store_data(processed, failAt) IN
         /\ store_log' = Append(store_log,
              [items |-> processed, written |-> r.written, raised |-> r.raised])
         /\ IF r.raised
            THEN pc' = "except" /\ exc' = StoreError
                 /\ stored_count' = stored_count
            ELSE pc' = "metrics" /\ exc' = exc
                 /\ stored_count' = r.stored
  /\ UNCHANGED <<clock, start, attempt, last_error, raw_data, processed,
                 result, health, fetch_log, sleeps, process_log, metrics>>

\* Mutant: the success path forgets put_metric("Errors", 0).
SuccessMetrics_no_errors(stored, duration) ==
  <<[name |-> "ProcessedRecords", value |-> stored, unit |-> "Count"],
    [name |-> "ExecutionDurationMs", value |-> duration, unit |-> "Milliseconds"]>>

\* The put_metric calls of the try block, in order
SuccessMetrics(stored, duration) ==
  <<[name |-> "ProcessedRecords", value |-> stored, unit |-> "Count"],
    [name |-> "ExecutionDurationMs", value |-> duration, unit |-> "Milliseconds"],
    [name |-> "Errors", value |-> 0, unit |-> "Count"]>>

\* The next put_metric call of the try block (the calls made so far are the
\* ones in metrics): if it raised, the except clause runs; after the last
\* one, return {"statusCode": 200, ...}.
PublishMetric ==
  /\ pc = "metrics"
  /\ LET calls == SuccessMetrics(stored_count, duration_ms)
         i == Len(metrics) + 1
     IN \E backendOk \in BOOLEAN :
          /\ metrics' = Append(metrics,
               Metric(calls[i].name, calls[i].value, calls[i].unit, backendOk))
          /\ IF put_metric_raises(backendOk)
             THEN pc' = "except" /\ exc' = MetricsError /\ result' = result
             ELSE IF i < Len(calls)
             THEN UNCHANGED <<pc, exc, result>>
             ELSE /\ pc' = "done"
                  /\ exc' = exc
                  /\ result' = Success(stored_count, duration_ms)
  /\ UNCHANGED <<clock, start, attempt, last_error, raw_data, processed,
                 stored_count, health, fetch_log, sleeps, process_log,
                 store_log>>

\* except Exception as exc: put_metric("Errors", 1); return {"statusCode": 500,
\* ...}.  An exception raised here would leave the handler uncaught.
HandleException ==
  /\ pc = "except"
  /\ \E backendOk \in BOOLEAN :
       /\ metrics' = Append(metrics, Metric("Errors", 1, "Count", backendOk))
       /\ IF put_metric_raises(backendOk)
          THEN pc' = "crashed" /\ result' = result
          ELSE pc' = "done" /\ result' = Failure(exc)
  /\ UNCHANGED <<clock, start, attempt, last_error, raw_data, processed,
                 stored_count, exc, health, fetch_log, sleeps, process_log,
                 store_log>>

Next ==
  \/ Start
  \/ HealthCheck
  \/ FetchAttempt
  \/ ProcessData
  \/ StoreData
  \/ PublishMetric
  \/ HandleException

Spec == Init /\ [][Next]_vars

\* One thread of control runs the handler: a step that can be taken is taken.
FairSpec == Spec /\ WF_vars(Next)

(* ---------------------------------------------------------------------- *)
(* Properties                                                             *)
(* ---------------------------------------------------------------------- *)
Done == pc = "done"
Stopped == pc \in {"except", "done"}

\* C1: when the availability check gives anything but status ACTIVE (another
\* status, or describe_table raising), the invocation fails with the message
\* that the table is not available, and it makes no fetch attempt, processes
\* no record and writes nothing to the store.
C1_UnavailableTableFails ==
  health \notin {"none", "ACTIVE"} =>
    /\ Stopped
    /\ exc = TableNotAvailable
    /\ Done => result = Failure(TableNotAvailable)
    /\ fetch_log = <<>> /\ sleeps = <<>>
    /\ process_log = <<>> /\ store_log = <<>>

C1_Witness == Done /\ health = "raise" /\ result.statusCode = 500

\* Every attempt of the budget was made and none returned data.
Exhausted ==
  /\ Len(fetch_log) = MAX_RETRIES
  /\ \A i \in 1..MAX_RETRIES : fetch_log[i].kind # "ok"

\* Whether the attempt logged as e ended in an except clause: an HTTPError,
\* another exception of urlopen or of decoding the body, or a 429 response
\* whose Retry-After is no non-negative integer.
Raised(e) ==
  \/ e.kind \in {"http429", "httperr", "neterr", "badjson", "nolen"}
  \/ /\ e.kind = "resp429"
     /\ e.hdr.present
     /\ ~PyIntStr(e.hdr.text).ok \/ PyIntStr(e.hdr.text).n < 0

\* The number of the last attempt among the first n that raised; 0 if none.
RECURSIVE LastRaised(_)
LastRaised(n) ==
  IF n = 0 THEN 0
  ELSE IF Raised(fetch_log[n]) THEN n ELSE LastRaised(n - 1)

\* The exception the attempt logged as e raised
ExceptionOf(e) ==
  CASE e.kind = "http429" -> "HTTPError429"
    [] e.kind = "httperr" -> "HTTPError"
    [] e.kind = "neterr" -> "URLError"
    [] e.kind = "badjson" -> "JSONDecodeError"
    [] e.kind = "nolen" -> "TypeError"
    [] e.kind = "resp429" -> "ValueError"

\* The exception of the most recent of the first n attempts that raised one
LastException(n) ==
  IF LastRaised(n) = 0 THEN NoError
  ELSE [kind |-> ExceptionOf(fetch_log[LastRaised(n)]),
        attempt |-> LastRaised(n)]

\* C2 as stated: when all MAX_RETRIES attempts fail, the failure carries the
\* attempt count and an underlying failure, and nothing is processed or
\* stored.
C2_ExhaustionCarriesAFailure ==
  (Exhausted /\ Done) =>
    /\ result.statusCode = 500
    /\ result.error.attempts = MAX_RETRIES
    /\ result.error.cause # NoError
    /\ process_log = <<>> /\ store_log = <<>>

\* C2 amended: when all MAX_RETRIES attempts fail, the invocation fails with
\* a message that carries the attempt count MAX_RETRIES and last_error, the
\* exception of the most recent attempt that raised one, or None when every
\* attempt was a 429 response handled without an exception; process_data and
\* store_data are not called.
C2_ExhaustionFails ==
  Exhausted =>
    /\ Stopped
    /\ exc.msg = "Fetch failed after attempts"
    /\ exc.attempts = MAX_RETRIES
    /\ exc.cause = LastException(MAX_RETRIES)
    /\ Done => result = Failure(exc)
    /\ process_log = <<>> /\ store_log = <<>>

C2_Witness ==
  /\ Done /\ Exhausted
  /\ \A i \in 1..MAX_RETRIES : fetch_log[i].kind = "neterr"
  /\ result.error.cause = FetchError("URLError", MAX_RETRIES)

\* A fetched record that validation accepts: a dict holding a string or an
\* integer (Python's int includes bool) for every required field.
Accepted(item) ==
  /\ item.isdict
  /\ \A f \in {"id", "title", "body", "userId"} :
       f \in DOMAIN item.d /\ item.d[f].t \in {"str", "int", "bool"}

\* A fetched record that validation rejects
Rejected(item) == item.isdict /\ ~Accepted(item)

\* C3: when the fetch returned and no fetched record passes validation (or
\* the batch is empty), the invocation fails with "No valid records after
\* validation" and store_data is not called.
C3_NoValidRecordsFails ==
  (/\ process_log # <<>>
   /\ \A i \in 1..Len(raw_data) : Rejected(raw_data[i])) =>
    /\ Stopped
    /\ exc = NoValidRecords
    /\ Done => result = Failure(NoValidRecords)
    /\ store_log = <<>>

C3_Witness ==
  /\ Done
  /\ raw_data = <<MissingUserId, NullTitle>>
  /\ result = Failure(NoValidRecords)

Count(name) == Cardinality({i \in 1..Len(metrics) : metrics[i].name = name})

\* C4: when the handler is done, put_metric was called exactly once for
\* Errors, with 0 if the result is the success result and 1 if it is the
\* failure result, and once each for ProcessedRecords and
\* ExecutionDurationMs on success, never on failure.
C4_MetricsAtDone ==
  Done =>
    LET ok == result.statusCode = 200
        pair == IF ok THEN 1 ELSE 0
    IN /\ Count("Errors") = 1
       /\ \A i \in 1..Len(metrics) :
            metrics[i].name = "Errors" => metrics[i].value = (IF ok THEN 0 ELSE 1)
       /\ Count("ProcessedRecords") = pair
       /\ Count("ExecutionDurationMs") = pair
       /\ Len(metrics) = 1 + 2 * pair

C4_Witness ==
  /\ Done /\ result.statusCode = 200
  /\ Len(metrics) = 3 /\ metrics[3].name = "Errors" /\ metrics[3].value = 0

\* What the invocation returns, from the outcomes of the availability check,
\* the fetch attempts, the validation and the store writes alone.
ResultOfStages ==
  IF health # "ACTIVE" THEN Failure(TableNotAvailable)
  ELSE IF Exhausted
    THEN Failure(Exc("RuntimeError", "Fetch failed after attempts", MAX_RETRIES,
                     LastException(MAX_RETRIES)))
  ELSE IF \E i \in 1..Len(raw_data) : ~raw_data[i].isdict
    THEN Failure(RecordError)
  ELSE IF \A i \in 1..Len(raw_data) : Rejected(raw_data[i])
    THEN Failure(NoValidRecords)
  ELSE IF store_log[1].raised THEN Failure(StoreError)
  ELSE Success(
         Cardinality({i \in 1..Len(raw_data) : Accepted(raw_data[i])}),
         Sum(sleeps) * 1000)

\* C5: the result is decided by the outcomes of the availability check, the
\* fetch attempts, the validation and the store writes, whichever put_metric
\* calls fail at the backend; and put_metric never raises to its caller.
C5_MetricsNeverInfluenceResult ==
  /\ pc # "crashed"
  /\ exc # MetricsError
  /\ Done => result = ResultOfStages

C5_Witness ==
  /\ Done /\ result.statusCode = 200
  /\ \A i \in 1..Len(metrics) : ~metrics[i].delivered

WellFormed(r) ==
  \/ /\ DOMAIN r = {"statusCode", "message", "stored", "duration_ms"}
     /\ r.statusCode = 200 /\ r.message = "OK"
     /\ r.stored \in Nat /\ r.duration_ms \in Nat
  \/ /\ DOMAIN r = {"statusCode", "message", "error"}
     /\ r.statusCode = 500 /\ r.message = "ERROR"
     /\ r.error # NoExc

\* C6: every invocation ends: whatever the collaborators do, the handler
\* makes at most MAX_RETRIES fetch attempts, no exception leaves it, and it
\* eventually returns the success result (200 with message, stored,
\* duration) or the failure result (500 with message, error).
C6_AlwaysReturns ==
  /\ [](pc # "crashed")
  /\ [](Len(fetch_log) <= MAX_RETRIES)
  /\ [](Done => WellFormed(result))
  /\ <>Done

C6_Witness ==
  /\ Done /\ store_log # <<>> /\ store_log[1].raised
  /\ result = Failure(StoreError)
  /\ ~metrics[1].delivered

\* A transport error or an error status other than 429, or a body that
\* cannot be decoded to a list
Transient(e) == e.kind \in {"httperr", "neterr", "badjson", "nolen"}

\* C7: attempts are numbered 1, 2, ... and never exceed MAX_RETRIES; an
\* attempt a that fails with a transient error is followed by one wait of
\* 2^a seconds, then by attempt a + 1 if a < MAX_RETRIES and by no further
\* attempt if a = MAX_RETRIES.
C7_TransientBackoff ==
  /\ Len(fetch_log) <= MAX_RETRIES
  /\ \A i \in 1..Len(fetch_log) :
       LET e == fetch_log[i] IN
         /\ e.attempt = i
         /\ Transient(e) =>
              /\ e.slept = <<2 ^ i>>
              /\ (i = Len(fetch_log) /\ i < MAX_RETRIES) =>
                   pc = "fetch" /\ attempt = i + 1
              /\ i = MAX_RETRIES => pc # "fetch"

C7_Witness ==
  /\ Done /\ Len(fetch_log) = MAX_RETRIES
  /\ \A i \in 1..MAX_RETRIES : fetch_log[i].kind = "httperr"
  /\ sleeps = <<2, 4, 8>>

\* The attempt logged as e was answered with status 429
RateLimited(e) == e.kind \in {"resp429", "http429"}

\* The attempt logged as e carries a Retry-After of d >= 0 seconds
Advises(e, d) ==
  e.hdr.present /\ PyIntStr(e.hdr.text).ok /\ PyIntStr(e.hdr.text).n = d /\ d >= 0

\* C8: after a 429 that carries a Retry-After of d seconds, whether urlopen
\* returned it or raised it as HTTPError, the wait is exactly d seconds.
C8_RetryAfterHonoured ==
  \A i \in 1..Len(fetch_log) : \A d \in 0..MaxRetryAfter :
    (RateLimited(fetch_log[i]) /\ Advises(fetch_log[i], d)) =>
      fetch_log[i].slept = <<d>>

\* C9 as stated: after a 429 without a Retry-After header at attempt a, the
\* wait is 2^a seconds.
C9_NoAdviceBacksOff ==
  \A i \in 1..Len(fetch_log) :
    (RateLimited(fetch_log[i]) /\ ~fetch_log[i].hdr.present) =>
      fetch_log[i].slept = <<2 ^ i>>

\* C9 amended: after a 429 without a Retry-After header at attempt a, the
\* wait is 2^a seconds when urlopen raised it as HTTPError, and 5 seconds,
\* whatever the attempt, when urlopen returned it as a response.
C9_NoAdviceWait ==
  \A i \in 1..Len(fetch_log) :
    LET e == fetch_log[i] IN
      (RateLimited(e) /\ ~e.hdr.present) =>
        e.slept = (IF e.kind = "http429" THEN <<2 ^ i>> ELSE <<5>>)

C9_Witness ==
  /\ Len(fetch_log) = 2
  /\ fetch_log[1].kind = "resp429" /\ ~fetch_log[1].hdr.present
  /\ fetch_log[2].kind = "http429" /\ ~fetch_log[2].hdr.present
  /\ sleeps = <<5, 4>>

\* The first k attempts each returned a response with status 429 and a
\* Retry-After of d seconds, and attempt k + 1 returned n >= 1 records, all
\* valid; the table is ACTIVE and the writes succeeded.
RateLimitedThenSuccess(k, d) ==
  /\ health = "ACTIVE"
  /\ Len(fetch_log) = k + 1
  /\ fetch_log[k + 1].kind = "ok"
  /\ \A i \in 1..k : fetch_log[i].kind = "resp429" /\ Advises(fetch_log[i], d)
  /\ raw_data # <<>>
  /\ \A i \in 1..Len(raw_data) : Accepted(raw_data[i])
  /\ store_log # <<>> /\ ~store_log[1].raised

MaxProcBatch == 2
MaxPad == 1
MaxOver == 1

\* One value of every kind json.loads can put in a field
FieldValues ==
  {StrV(Txt("a")), StrV(<<>>), StrV(Txt(" ")), IntV(7), BoolV(TRUE), NullV,
   FloatV, ListV, DictV}

\* ValidItem with field f holding v, and ValidItem without field f
WithField(f, v) ==
  DictItem([g \in DOMAIN ValidItem.d |-> IF g = f THEN v ELSE ValidItem.d[g]])
WithoutField(f) ==
  DictItem([g \in DOMAIN ValidItem.d \ {f} |-> ValidItem.d[g]])

FieldNames == {REQUIRED[i] : i \in 1..Len(REQUIRED)}

FieldItems ==
  {WithField(f, v) : f \in FieldNames, v \in FieldValues}
  \cup {WithoutField(f) : f \in FieldNames}
  \cup {NonDictItem}

\* A text of n characters without whitespace, and the same with lead spaces
\* before it and trail spaces after it
Text(n) == [i \in 1..n |-> DigitChars[(i % 10) + 1]]
Spaces(n) == [i \in 1..n |-> " "]
Padded(lead, n, trail) == Spaces(lead) \o Text(n) \o Spaces(trail)

\* Lengths around a limit
Around(limit) == {limit + d : d \in (0 - MaxOver)..MaxOver}

\* Records whose title and body are around their limits
TextItems ==
  {WithField("title", StrV(Padded(l, tn, t))) : 
     l \in 0..MaxPad, t \in 0..MaxPad, tn \in Around(TITLE_MAX)}
  \cup {WithField("body", StrV(Padded(l, bn, t))) :
     l \in 0..MaxPad, t \in 0..MaxPad, bn \in Around(BODY_MAX)}

ProcBatches ==
  UNION {[1..n -> FieldItems] : n \in 0..MaxProcBatch}
  \cup {<<x>> : x \in TextItems}

\* lambda_handler at line 200, fetch_data having returned the batch at its
\* first attempt
InitProc ==
  /\ pc = "process"
  /\ clock = 0
  /\ start = 0
  /\ attempt = 1
  /\ last_error = NoError
  /\ raw_data \in ProcBatches
  /\ processed = <<>>
  /\ stored_count = 0
  /\ exc = NoExc
  /\ result = NoResult
  /\ health = "ACTIVE"
  /\ fetch_log = <<[attempt |-> 1, kind |-> "ok", hdr |-> NoHeader,
                    body |-> raw_data, slept |-> <<>>]>>
  /\ sleeps = <<>>
  /\ process_log = <<>>
  /\ store_log = <<>>
  /\ metrics = <<>>

NextProc == ProcessData

SpecProc == InitProc /\ [][NextProc]_vars

\* process_data has returned for a batch of dicts
Processed ==
  /\ process_log # <<>>
  /\ \A i \in 1..Len(raw_data) : raw_data[i].isdict

\* A record that lacks a required field, or holds for one a value that is
\* neither a string nor an integer: null, a boolean, a fractional number, a
\* list or an object
MustReject(item) ==
  \E f \in {"id", "title", "body", "userId"} :
    f \notin DOMAIN item.d \/ item.d[f].t \notin {"str", "int"}

\* C11: a record that lacks a required field, or holds for one a value that
\* is neither a string nor an integer, is not in the accepted output and
\* adds exactly one to the rejected count; accepted + rejected is the number
\* of raw records.
C11_RejectionLaw ==
  Processed =>
    LET r == process_log[1]
        bad == {i \in 1..Len(raw_data) : MustReject(raw_data[i])}
    IN /\ r.invalid = Cardinality(bad)
       /\ Len(r.valid) = Len(raw_data) - Cardinality(bad)
       /\ Len(r.valid) + r.invalid = Len(raw_data)

\* C12: every record process_data outputs has a non-empty id, the
\* stringified id of a record of the batch that passed validation; no
\* record that failed validation is transformed.
C12_IdNonEmptyAndDerived ==
  Processed =>
    LET r == process_log[1] IN
      /\ \A j \in 1..Len(r.valid) :
           /\ r.valid[j].id # <<>>
           /\ \E i \in 1..Len(raw_data) :
                Accepted(raw_data[i]) /\ r.valid[j].id = PyStr(raw_data[i].d["id"])
      /\ Len(r.valid) = Cardinality({i \in 1..Len(raw_data) : Accepted(raw_data[i])})

\* The number of records of the fetched batch that validation accepts
NumAccepted == Cardinality({i \in 1..Len(raw_data) : Accepted(raw_data[i])})

\* C13: when the table is ACTIVE, the fetch returned n records of which
\* v >= 1 are valid and the store writes succeed, process_data accepts v and
\* rejects n - v, store_data is handed exactly the v accepted records, and
\* the result is success with stored = v.
C13_Accounting ==
  (health = "ACTIVE" /\ Processed /\ NumAccepted >= 1) =>
    /\ Len(process_log[1].valid) = NumAccepted
    /\ process_log[1].invalid = Len(raw_data) - NumAccepted
    /\ processed = process_log[1].valid
    /\ (store_log # <<>> /\ ~store_log[1].raised) =>
         /\ Len(store_log) = 1
         /\ store_log[1].items = process_log[1].valid
         /\ stored_count = NumAccepted
         /\ pc \in {"metrics", "done"}
         /\ Done => (result.statusCode = 200 /\ result.stored = NumAccepted)

C13_Witness ==
  /\ Done
  /\ health = "ACTIVE"
  /\ raw_data = <<ValidItem, MissingUserId>>
  /\ process_log[1].invalid = 1
  /\ Len(store_log[1].items) = 1
  /\ result.statusCode = 200 /\ result.stored = 1

(* ---------------------------------------------------------------------- *)
(* store_data on its own: the accepted records are drawn at the start     *)
(* ---------------------------------------------------------------------- *)
MaxStoreItems == 51

\* A fetched batch of n valid records with ids 1..n
ValidBatch(n) == [i \in 1..n |-> WithField("id", IntV(i))]

\* lambda_handler at line 205, process_data having accepted all n records
InitStore ==
  \E n \in 1..MaxStoreItems :
    /\ pc = "store"
    /\ clock = 0
    /\ start = 0
    /\ attempt = 1
    /\ last_error = NoError
    /\ raw_data = ValidBatch(n)
    /\ processed = process_data(ValidBatch(n), 0).valid
    /\ stored_count = 0
    /\ exc = NoExc
    /\ result = NoResult
    /\ health = "ACTIVE"
    /\ fetch_log = <<[attempt |-> 1, kind |-> "ok", hdr |-> NoHeader,
                      body |-> ValidBatch(n), slept |-> <<>>]>>
    /\ sleeps = <<>>
    /\ process_log = <<process_data(ValidBatch(n), 0)>>
    /\ store_log = <<>>
    /\ metrics = <<>>

NextStore ==
  \/ StoreData
  \/ PublishMetric
  \/ HandleException

SpecStore == InitStore /\ [][NextStore]_vars

RECURSIVE Flatten(_)
Flatten(ss) == IF ss = <<>> THEN <<>> ELSE Head(ss) \o Flatten(Tail(ss))

\* ceil(n / 25)
CeilBy25(n) == CHOOSE q \in 0..n : 25 * q >= n /\ 25 * (q - 1) < n

C15_StoreAllOrError ==
  \A k \in 1..Len(store_log) :
    LET s == store_log[k] IN
      IF s.raised
      THEN /\ Stopped
           /\ exc = StoreError
           /\ stored_count = 0
           /\ Count("ProcessedRecords") = 0
           /\ result.statusCode # 200
           /\ Done => result = Failure(StoreError)
      ELSE /\ Flatten(s.written) = s.items
           /\ stored_count = Len(s.items)
           /\ pc \in {"metrics", "done"}

C15_Witness ==
  /\ Done
  /\ store_log # <<>> /\ store_log[1].raised
  /\ Len(store_log[1].items) = 51
  /\ Len(store_log[1].written) = 2
  /\ result = Failure(StoreError)

\* The records of the fetched batch that validation accepts, in order
AcceptedRecords == SelectSeq(raw_data, Accepted)

\* out is the text t, trimmed and then cut to its first limit characters
TrimmedThenCut(out, t, limit) ==
  LET trimmed == Strip(t) IN
    IF Len(trimmed) > limit
    THEN /\ Len(out) = limit
         /\ \A i \in 1..limit : out[i] = trimmed[i]
    ELSE out = trimmed

\* C16: the title of an output record is the stringified input title,
\* trimmed; if that is longer than 500 characters it is its first 500
\* characters, else it is unchanged.  The same holds for body with 2000.
C16_Truncation ==
  Processed =>
    /\ Len(process_log[1].valid) = Len(AcceptedRecords)
    /\ \A j \in 1..Len(process_log[1].valid) :
         /\ TrimmedThenCut(process_log[1].valid[j].title,
                           PyStr(AcceptedRecords[j].d["title"]), 500)
         /\ TrimmedThenCut(process_log[1].valid[j].body,
                           PyStr(AcceptedRecords[j].d["body"]), 2000)

C16_Witness ==
  /\ Processed
  /\ raw_data = <<WithField("title", StrV(Padded(1, 501, 1)))>>
  /\ process_log[1].valid[1].title = Text(500)

C18_WaitsOnlyBetweenAttempts ==
  /\ (pc # "fetch" /\ fetch_log # <<>>) => Len(sleeps) <= Len(fetch_log) - 1
  /\ Exhausted => Len(sleeps) = MAX_RETRIES - 1

\* The attempt logged as e was answered with status 429 and a Retry-After
\* that is no non-negative integer
UnusableAdvice(e) == e.kind = "resp429" /\ Raised(e)

\* The exception of the most recent of the first n attempts that failed
\* with a transient error (or on an unusable Retry-After); None if there is
\* none
RECURSIVE LastTransient(_)
LastTransient(n) ==
  IF n = 0 THEN NoError
  ELSE IF Transient(fetch_log[n]) \/ UnusableAdvice(fetch_log[n])
    THEN [kind |-> ExceptionOf(fetch_log[n]), attempt |-> n]
    ELSE LastTransient(n - 1)

\* C19: an attempt answered with status 429 uses up one attempt and leaves
\* last_error as it was: last_error, and the failure a terminal failure
\* carries, is that of the most recent transient-error attempt, never that
\* of a 429.
C19_RateLimitLeavesLastError ==
  /\ \A i \in 1..Len(fetch_log) : fetch_log[i].attempt = i
  /\ last_error = LastTransient(Len(fetch_log))
  /\ Exhausted => exc.cause = LastTransient(MAX_RETRIES)

\* C20: the output of process_data is the records of the batch that pass
\* validation, each transformed, in their input order, none twice and none
\* missing; whether a record passes depends on that record alone.
C20_OrderPreserved ==
  Processed =>
    /\ process_log[1].valid =
         [j \in 1..Len(AcceptedRecords) |-> transform_item(AcceptedRecords[j], 0)]
    /\ process_log[1].invalid = Len(raw_data) - Len(AcceptedRecords)
    /\ \A i \in 1..Len(raw_data) :
         Accepted(raw_data[i]) <=> validate_item(raw_data[i]) = "true"

C20_Witness ==
  /\ Processed
  /\ raw_data = <<WithField("id", IntV(7)), WithField("id", StrV(Txt("a")))>>
  /\ Len(process_log[1].valid) = 2
  /\ process_log[1].valid[1].id = Txt("7")
  /\ process_log[1].valid[2].id = Txt("a")

====
